---- MODULE Spec2Model ----
(***************************************************************************)
(* Session catalog, message ledger, query stream orchestrator, repository  *)
(* ingestion and upload-progress reporter of the codebase-rag web client.  *)
(*                                                                         *)
(* React state is modelled by one variable per useState cell.  A handler   *)
(* is one action; an async handler is split at each await, and the values  *)
(* its closure captured at the render it was created in travel with the    *)
(* in-flight call.  Functional updates setX(prev => ...) read the current  *)
(* state; plain reads inside a continuation read the captured snapshot.    *)
(***************************************************************************)
EXTENDS Integers, Sequences, FiniteSets, TLC

----------------------------------------------------------------------------
(* Bounds of the model *)

\* sessions ever created through createSession
MaxSessions == 2
\* accepted question submissions (streams opened)
MaxSubmits == 1
\* characters of answer text a stream accumulates
MaxText == 2
\* rename calls issued
MaxRenames == 2
\* delete calls issued
MaxDeletes == 2
\* rename and delete calls issued where both are at play
MaxCalls == 2
\* ingestion attempts started
MaxAttempts == 2
\* callbacks of the progress interval that run back to back, with no other
\* event of the page between them
MaxBurst == 10
\* value of the clock read by new Date()
MaxTime == 1

----------------------------------------------------------------------------
(* Values *)

\* JavaScript null in a string-valued cell (useState<string | null>(null))
NULL == "null"
\* JavaScript null in currentSessionId and the other session-id cells
NoSession == 0
\* JavaScript undefined (an absent optional field)
UNDEFINED == "undefined"
\* a key that a JSON frame or a patch object does not carry
NOKEY == "nokey"

\* the backend hands out session ids 1, 2, ... and never reuses one
SessionIds == 1..MaxSessions
\* a session the backend kept from an earlier visit
PreId == MaxSessions + 1
AllSessionIds == SessionIds \cup {PreId}
UserEmail == "u"
Names == {"n1", "n2"}
Metrics == {"m1", "m2"}
\* text fragments a partial_response frame can carry ("" is falsy in JS)
Fragments == {"", "a", "b"}
\* payloads of error frames
ErrorTexts == {"", "e"}
\* payloads of the message field of a limit frame
LimitTexts == {"", "L"}
\* what the user can type into the required question input
Contents == {" ", " q"}

DefaultLimitText == "You have reached your daily limit."
ConnectionErrorText == "\n\nConnection error occurred."
ErrorPrefix == "Error: "

\* JavaScript truthiness of an optional string or object field
Truthy(v) == v \notin {NOKEY, UNDEFINED, NULL, ""}

\* String.prototype.trim on the question text
RECURSIVE TrimLeft(_)
TrimLeft(s) ==
  IF Len(s) > 0 /\ SubSeq(s, 1, 1) = " " THEN TrimLeft(SubSeq(s, 2, Len(s))) ELSE s
RECURSIVE TrimRight(_)
TrimRight(s) ==
  IF Len(s) > 0 /\ SubSeq(s, Len(s), Len(s)) = " "
  THEN TrimRight(SubSeq(s, 1, Len(s) - 1)) ELSE s
Trim(s) == TrimRight(TrimLeft(s))

IsPrefix(p, s) == Len(p) <= Len(s) /\ SubSeq(s, 1, Len(p)) = p

----------------------------------------------------------------------------
(* State *)

VARIABLES
  sessions,            \* SessionProvider: useState<Session[]>([])
  currentSessionId,    \* SessionProvider: useState<string | null>(null)
  issued,              \* backend: how many session ids it has handed out
  now,                 \* the clock read by new Date() / Date.now()
  nextId,              \* source of generated message ids
  streams,             \* one record per WebSocket opened by handleSubmit
  isPending,           \* ChatPage: useState(false)
  limitReachedMessage, \* ChatPage: useState<string | null>(null)
  isFilesVisible,      \* ChatPage: useState(false)
  email,               \* SessionProvider: useState<string | null>(null)
  hasFetched,          \* SessionProvider: hasFetchedRef
  isLoading,           \* SessionProvider: useState(false)
  calls,               \* rename / delete / list calls awaiting the backend
  issuedCalls,         \* history: how many rename and delete calls were issued
  lastSettled,         \* history: the call whose continuation ran last
  isInputVisible,      \* Sidebar: useState(false)
  newSessionName,      \* Sidebar: useState("")
  githubUrl,           \* Sidebar: useState("")
  selectedFiles,       \* Sidebar: useState<FileList | null>(null)
  isUploading,         \* Sidebar: useState(false)
  uploadError,         \* Sidebar: useState<string | null>(null)
  sessionIdUrl,        \* useGithubUrl: sessionId, useState<string | null>(null)
  sessionIdf,          \* useFileUpload: useState<string | null>(null)
  currentStep,         \* UploadProgress: useState<UploadStep>('uploading')
  timeInStep,          \* UploadProgress: useState(0)
  attempts,            \* uploadUrl / uploadFiles calls awaiting the backend
  started              \* history: the number of attempts started

vars == <<sessions, currentSessionId, issued, now, nextId, streams, isPending,
          limitReachedMessage, isFilesVisible, email, hasFetched, isLoading,
          calls, issuedCalls, lastSettled, isInputVisible, newSessionName,
          githubUrl, selectedFiles, isUploading, uploadError, sessionIdUrl,
          sessionIdf, currentStep, timeInStep, attempts, started>>

sidebarVars == <<isInputVisible, newSessionName, githubUrl, selectedFiles,
                 isUploading, uploadError>>
progressVars == <<currentStep, timeInStep>>
ingestVars == <<sidebarVars, sessionIdUrl, sessionIdf, progressVars, attempts,
                started>>

chatVars == <<streams, isPending, limitReachedMessage, isFilesVisible>>
providerVars == <<email, hasFetched, isLoading, calls>>

----------------------------------------------------------------------------
(* Session catalog and message ledger (SessionProvider) *)

SessionIndex(ss, sid) == {i \in 1..Len(ss) : ss[i].session_id = sid}
HasSession(ss, sid) == SessionIndex(ss, sid) # {}
\* sessions.find(s => s.session_id === sid)
FindSession(ss, sid) == ss[CHOOSE i \in SessionIndex(ss, sid) :
                              \A j \in SessionIndex(ss, sid) : i <= j]
MessageIndex(s, mid) == {k \in 1..Len(s.messages) : s.messages[k].id = mid}

\* createSession: the new record; appended and made current by CreateSession
NewSession(name, id, t) ==
  [session_id |-> id, project_name |-> name, messages |-> <<>>,
   createdAt |-> t, lastActive |-> t]

\* addMessageToSession: setSessions(prev => prev.map(...))
addMessageToSession(ss, sessionId, type, text, id, t) ==
  LET Upd(session) ==
        IF session.session_id = sessionId
        THEN [session EXCEPT
                !.messages = Append(@, [id |-> id, type |-> type, text |-> text,
                                        timestamp |-> t, metric |-> UNDEFINED]),
                !.lastActive = t]
        ELSE session
  IN [i \in 1..Len(ss) |-> Upd(ss[i])]

\* the object spread {...message, ...updatedMessage, id, timestamp}:
\* a patch that carries no metric key keeps the message's metric
PatchMessage(message, messageId, patch) ==
  [id |-> messageId,
   type |-> patch.type,
   text |-> patch.text,
   timestamp |-> message.timestamp,
   metric |-> IF patch.metric = NOKEY THEN message.metric ELSE patch.metric]

\* the same update without the test of the session id: the message is looked
\* for in every session
updateSessionMessageAnySession(ss, sessionId, messageId, patch, t) ==
  LET UpdMsg(message) ==
        IF message.id = messageId THEN PatchMessage(message, messageId, patch)
        ELSE message
      Upd(session) ==
        [session EXCEPT
           !.messages = [k \in 1..Len(session.messages) |->
                           UpdMsg(session.messages[k])],
           !.lastActive = t]
  IN [i \in 1..Len(ss) |-> Upd(ss[i])]

\* the same update, the patched message stamped with the time of the update
updateSessionMessageRestamps(ss, sessionId, messageId, patch, t) ==
  LET UpdMsg(message) ==
        IF message.id = messageId
        THEN [PatchMessage(message, messageId, patch) EXCEPT !.timestamp = t]
        ELSE message
      Upd(session) ==
        IF session.session_id = sessionId
        THEN [session EXCEPT
                !.messages = [k \in 1..Len(session.messages) |->
                                UpdMsg(session.messages[k])],
                !.lastActive = t]
        ELSE session
  IN [i \in 1..Len(ss) |-> Upd(ss[i])]

\* updateSessionMessage: setSessions(prev => prev.map(...))
updateSessionMessage(ss, sessionId, messageId, patch, t) ==
  LET UpdMsg(message) ==
        IF message.id = messageId THEN PatchMessage(message, messageId, patch)
        ELSE message
      Upd(session) ==
        IF session.session_id = sessionId
        THEN [session EXCEPT
                !.messages = [k \in 1..Len(session.messages) |->
                                UpdMsg(session.messages[k])],
                !.lastActive = t]
        ELSE session
  IN [i \in 1..Len(ss) |-> Upd(ss[i])]

\* history: no call has settled since the last step of the user
NoneSettled == [op |-> "none", sid |-> NoSession, name |-> "", ok |-> FALSE,
                wasCurrent |-> FALSE]

\* createSession(name, id): append, make current
createSession(ss, name, id, t) == Append(ss, NewSession(name, id, t))

\* createSession called with the id of a finished upload (Sidebar effect)
CreateSession(name) ==
  /\ issued < MaxSessions
  /\ issued' = issued + 1
  /\ sessions' = createSession(sessions, name, issued + 1, now)
  /\ currentSessionId' = issued + 1
  /\ lastSettled' = NoneSettled
  /\ UNCHANGED <<now, nextId, chatVars, providerVars, issuedCalls,
                 ingestVars>>

\* the session button's onClick: setCurrentSessionId(session.session_id)
SelectSession(sid) ==
  /\ HasSession(sessions, sid)
  /\ currentSessionId # sid
  /\ currentSessionId' = sid
  /\ lastSettled' = NoneSettled
  /\ UNCHANGED <<sessions, issued, now, nextId, chatVars, providerVars,
                 issuedCalls,
                 ingestVars>>

\* time passes
Tick ==
  /\ now < MaxTime
  /\ now' = now + 1
  /\ UNCHANGED <<sessions, currentSessionId, issued, nextId, chatVars,
                 providerVars, issuedCalls, lastSettled,
                 ingestVars>>

----------------------------------------------------------------------------
(* Rename, delete and hydration (SessionProvider, Sidebar) *)

Ids(ss) == [i \in 1..Len(ss) |-> ss[i].session_id]
RemoveAt(q, k) == SubSeq(q, 1, k - 1) \o SubSeq(q, k + 1, Len(q))

\* what a handler's closure holds while its backend call is awaited; cur0
\* and ids0 are the currentSessionId and sessions of the render the handler
\* was made in (only deleteSession and handleDelete read them afterwards)
Call(op, sid, name, cur0, ids0) ==
  [op |-> op, sid |-> sid, name |-> name, cur0 |-> cur0, ids0 |-> ids0]

\* history: the call that settled last, whether the backend accepted it and
\* whether its session was the current one when it was issued
Settled(c, ok) == [op |-> c.op, sid |-> c.sid, name |-> c.name, ok |-> ok,
                   wasCurrent |-> c.cur0 = c.sid]

\* the same update, a session that is not in the catalog added under the name
renameInCatalogUpsert(ss, sessionId, newName, t) ==
  LET Upd(session) ==
        IF session.session_id = sessionId
        THEN [session EXCEPT !.project_name = newName, !.lastActive = t]
        ELSE session
  IN IF HasSession(ss, sessionId) THEN [i \in 1..Len(ss) |-> Upd(ss[i])]
     ELSE Append(ss, NewSession(newName, sessionId, t))

\* renameSession, after the await: setSessions(prev => prev.map(...))
renameInCatalog(ss, sessionId, newName, t) ==
  LET Upd(session) ==
        IF session.session_id = sessionId
        THEN [session EXCEPT !.project_name = newName, !.lastActive = t]
        ELSE session
  IN [i \in 1..Len(ss) |-> Upd(ss[i])]

\* deleteSession, after the await: setSessions(prev => prev.filter(...))
removeFromCatalog(ss, sessionId) ==
  LET Keep(session) == session.session_id # sessionId IN SelectSeq(ss, Keep)

OtherIds(ids, sessionId) ==
  LET Keep(id) == id # sessionId IN SelectSeq(ids, Keep)

\* deleteSession: remainingSessions[0].session_id, or null
ProviderFallback(ids0, sessionId) ==
  IF Len(OtherIds(ids0, sessionId)) > 0 THEN OtherIds(ids0, sessionId)[1]
  ELSE NoSession

\* the last of the other sessions instead of the first
SidebarFallbackLast(ids0, sessionId) ==
  IF Len(OtherIds(ids0, sessionId)) > 0
  THEN OtherIds(ids0, sessionId)[Len(OtherIds(ids0, sessionId))]
  ELSE NoSession

\* handleDelete: sessions.find(s => s.session_id !== sessionId)
SidebarFallback(ids0, sessionId) ==
  IF Len(OtherIds(ids0, sessionId)) > 0 THEN OtherIds(ids0, sessionId)[1]
  ELSE NoSession

\* the selection after deleteSession's continuation and then handleDelete's,
\* both reading the captured currentSessionId and sessions
SelectionAfterDelete(c, cur) ==
  LET afterProvider ==
        IF c.cur0 = c.sid THEN ProviderFallback(c.ids0, c.sid) ELSE cur
  IN IF c.cur0 = c.sid /\ Len(c.ids0) > 1
        /\ SidebarFallback(c.ids0, c.sid) # NoSession
     THEN SidebarFallback(c.ids0, c.sid)
     ELSE afterProvider

\* renameSession with the catalog updated before the await
RenameIssueOptimistic(sid, newName) ==
  /\ email # NULL
  /\ HasSession(sessions, sid)
  /\ issuedCalls.rename < MaxRenames
  /\ issuedCalls' = [issuedCalls EXCEPT !.rename = @ + 1]
  /\ calls' = Append(calls, Call("rename", sid, newName, NoSession, <<>>))
  /\ sessions' = renameInCatalog(sessions, sid, newName, now)
  /\ isLoading' = TRUE
  /\ lastSettled' = NoneSettled
  /\ UNCHANGED <<currentSessionId, issued, now, nextId, chatVars,
                 email, hasFetched, ingestVars>>

\* handleRenameSubmit -> renameSession, up to the await
RenameIssue(sid, newName) ==
  /\ email # NULL
  /\ HasSession(sessions, sid)
  /\ issuedCalls.rename < MaxRenames
  /\ issuedCalls' = [issuedCalls EXCEPT !.rename = @ + 1]
  /\ calls' = Append(calls, Call("rename", sid, newName, NoSession, <<>>))
  /\ isLoading' = TRUE
  /\ lastSettled' = NoneSettled
  /\ UNCHANGED <<sessions, currentSessionId, issued, now, nextId, chatVars,
                 email, hasFetched,
                 ingestVars>>

\* the backend acknowledges a rename
RenameOk(k) ==
  /\ calls[k].op = "rename"
  /\ sessions' = renameInCatalog(sessions, calls[k].sid, calls[k].name, now)
  /\ calls' = RemoveAt(calls, k)
  /\ isLoading' = FALSE
  /\ lastSettled' = Settled(calls[k], TRUE)
  /\ UNCHANGED <<currentSessionId, issued, now, nextId, chatVars, email,
                 hasFetched, issuedCalls,
                 ingestVars>>

\* a rejected call after which handleDelete's selection code runs all the same
CallFailMovesSelection(k) ==
  /\ calls[k].op \in {"rename", "delete"}
  /\ calls' = RemoveAt(calls, k)
  /\ isLoading' = FALSE
  /\ lastSettled' = Settled(calls[k], FALSE)
  /\ currentSessionId' =
       IF calls[k].op = "delete"
       THEN SelectionAfterDelete(calls[k], currentSessionId)
       ELSE currentSessionId
  /\ UNCHANGED <<sessions, issued, now, nextId, chatVars, email, hasFetched,
                 issuedCalls, ingestVars>>

\* the backend rejects a rename or a delete: rethrown, alert in the Sidebar
CallFail(k) ==
  /\ calls[k].op \in {"rename", "delete"}
  /\ calls' = RemoveAt(calls, k)
  /\ isLoading' = FALSE
  /\ lastSettled' = Settled(calls[k], FALSE)
  /\ UNCHANGED <<sessions, currentSessionId, issued, now, nextId, chatVars,
                 email, hasFetched, issuedCalls,
                 ingestVars>>

\* handleDelete (confirmed) -> deleteSession, up to the await
DeleteIssue(sid) ==
  /\ email # NULL
  /\ HasSession(sessions, sid)
  /\ issuedCalls.delete < MaxDeletes
  /\ issuedCalls' = [issuedCalls EXCEPT !.delete = @ + 1]
  /\ calls' = Append(calls, Call("delete", sid, "", currentSessionId,
                                 Ids(sessions)))
  /\ isLoading' = TRUE
  /\ lastSettled' = NoneSettled
  /\ UNCHANGED <<sessions, currentSessionId, issued, now, nextId, chatVars,
                 email, hasFetched,
                 ingestVars>>

\* the backend acknowledges a delete: deleteSession's continuation, then
\* handleDelete's
DeleteOk(k) ==
  /\ calls[k].op = "delete"
  /\ sessions' = removeFromCatalog(sessions, calls[k].sid)
  /\ currentSessionId' = SelectionAfterDelete(calls[k], currentSessionId)
  /\ calls' = RemoveAt(calls, k)
  /\ isLoading' = FALSE
  /\ lastSettled' = Settled(calls[k], TRUE)
  /\ UNCHANGED <<issued, now, nextId, chatVars, email, hasFetched, issuedCalls,
                 ingestVars>>

\* handleDelete before the user's email is known: deleteSession returns at
\* once, handleDelete still moves the selection
DeleteNoEmail(sid) ==
  /\ email = NULL
  /\ HasSession(sessions, sid)
  /\ currentSessionId' =
       IF currentSessionId = sid /\ Len(sessions) > 1
       THEN SidebarFallback(Ids(sessions), sid) ELSE currentSessionId
  /\ lastSettled' = NoneSettled
  /\ UNCHANGED <<sessions, issued, now, nextId, chatVars, providerVars,
                 issuedCalls,
                 ingestVars>>

\* one record of the backend's session list, and the lists it can answer
\* with: the session of an earlier visit or not, then the uploads it had
\* seen when it read the list, oldest first
Listed(id) ==
  [session_id |-> id,
   project_name |-> IF id = PreId THEN "" ELSE "n1",
   messages |-> IF id = PreId
                THEN <<[query |-> "q", response |-> "r", metrics |-> "m1"]>>
                ELSE <<>>]
RECURSIVE ListOf(_)
ListOf(K) ==
  IF K = {} THEN <<>>
  ELSE LET m == CHOOSE x \in K : \A y \in K : x >= y
       IN IF m = PreId THEN <<Listed(m)>> \o ListOf(K \ {m})
          ELSE ListOf(K \ {m}) \o <<Listed(m)>>
ListPayloads ==
  {ListOf(P \cup 1..j) : P \in {{}, {PreId}}, j \in 0..issued}

\* fetchSessions: msg => [user message if msg.query] ++ [bot message if
\* msg.response], with generated ids
RECURSIVE FormatMessages(_, _, _)
FormatMessages(msgs, id, t) ==
  IF msgs = <<>> THEN <<>>
  ELSE LET msg == Head(msgs)
           u == IF Truthy(msg.query)
                THEN <<[id |-> id, type |-> "user", text |-> msg.query,
                        timestamp |-> t, metric |-> UNDEFINED]>>
                ELSE <<>>
           b == IF Truthy(msg.response)
                THEN <<[id |-> id + 1, type |-> "bot", text |-> msg.response,
                        timestamp |-> t, metric |-> msg.metrics]>>
                ELSE <<>>
       IN u \o b \o FormatMessages(Tail(msgs), id + 2, t)

RECURSIVE MessageCount(_)
MessageCount(chats) ==
  IF chats = <<>> THEN 0 ELSE Len(Head(chats).messages) + MessageCount(Tail(chats))

\* fetchSessions: chatSessions.map(chat => ({...}))
RECURSIVE FormatSessions(_, _, _)
FormatSessions(chats, id, t) ==
  IF chats = <<>> THEN <<>>
  ELSE LET chat == Head(chats)
       IN <<[session_id |-> chat.session_id,
             project_name |-> IF Truthy(chat.project_name)
                              THEN chat.project_name ELSE "New Chat",
             messages |-> FormatMessages(chat.messages, id, t),
             createdAt |-> t, lastActive |-> t]>>
          \o FormatSessions(Tail(chats), id + 2 * Len(chat.messages), t)

\* fetchUser resolves with the signed-in user; the [email] effect then starts
\* fetchSessions once
FetchUser ==
  /\ email = NULL
  /\ email' = UserEmail
  /\ hasFetched' = TRUE
  /\ isLoading' = TRUE
  /\ calls' = IF hasFetched THEN calls
              ELSE Append(calls, Call("list", NoSession, "", NoSession, <<>>))
  /\ lastSettled' = NoneSettled
  /\ UNCHANGED <<sessions, currentSessionId, issued, now, nextId, chatVars,
                 issuedCalls,
                 ingestVars>>

\* the session list arrives: setSessions(formattedSessions)
ListOk(k, chats) ==
  /\ calls[k].op = "list"
  /\ sessions' = FormatSessions(chats, nextId, now)
  /\ nextId' = nextId + 2 * MessageCount(chats)
  /\ calls' = RemoveAt(calls, k)
  /\ isLoading' = FALSE
  /\ lastSettled' = Settled(calls[k], TRUE)
  /\ UNCHANGED <<currentSessionId, issued, now, chatVars, email, hasFetched,
                 issuedCalls,
                 ingestVars>>

\* the session list fails: logged
ListFail(k) ==
  /\ calls[k].op = "list"
  /\ calls' = RemoveAt(calls, k)
  /\ isLoading' = FALSE
  /\ lastSettled' = Settled(calls[k], FALSE)
  /\ UNCHANGED <<sessions, currentSessionId, issued, now, nextId, chatVars,
                 email, hasFetched, issuedCalls,
                 ingestVars>>

----------------------------------------------------------------------------
(* Query stream orchestrator (ChatPage.handleSubmit) *)

\* one inbound JSON frame: the keys the handler reads ("" where a string
\* key is absent: the handler tests every key for truthiness only)
Frame(error, limit, message, partial, metric, complete) ==
  [error |-> error, limit_reached |-> limit, message |-> message,
   partial_response |-> partial, metric |-> metric, complete |-> complete]

\* the frames of the backend contract: each carries one tag
PartialFrames == {Frame("", FALSE, "", p, NOKEY, FALSE) : p \in Fragments}
MetricFrames == {Frame("", FALSE, "", "", m, FALSE) : m \in Metrics}
LimitFrames == {Frame("", TRUE, m, "", NOKEY, FALSE) : m \in LimitTexts}
ErrorFrames == {Frame(e, FALSE, "", "", NOKEY, FALSE) : e \in ErrorTexts}
CompleteFrames == {Frame("", FALSE, "", "", NOKEY, TRUE)}
Frames ==
  PartialFrames \cup MetricFrames \cup LimitFrames \cup ErrorFrames \cup CompleteFrames

\* the record handleSubmit's closure keeps for the socket it opened
NewStream(sid, botMessageId, content) ==
  [sid |-> sid,                  \* captured currentSessionId
   botMessageId |-> botMessageId,
   query |-> content,            \* queryRequest.query
   botMessage |-> "",            \* let botMessage = ""
   currentMetrics |-> UNDEFINED, \* let currentMetrics = undefined
   ws |-> "connecting",          \* WebSocket.readyState
   sent |-> 0,                   \* envelopes sent on the socket
   received |-> "",              \* history: the fragments delivered, in order
   outcome |-> "none"]           \* history: complete / errored / limit

\* data.message || "You have reached your daily limit."
LimitText(f) == IF Truthy(f.message) THEN f.message ELSE DefaultLimitText

\* botMessage = data.partial_response
AssignFragment(botMessage, fragment) == fragment

\* botMessage += data.partial_response
AppendFragment(botMessage, fragment) == botMessage \o fragment

\* `Error: ${data.error}`
ErrorFrameText(botMessage, error) == ErrorPrefix \o error

\* botMessage + "\n\nConnection error occurred."
TransportErrorText(botMessage) == botMessage \o ConnectionErrorText

BotPatch(text, metric) == [type |-> "bot", text |-> text, metric |-> metric]

\* ws.onmessage, one result per branch: the closure's botMessage and
\* currentMetrics, the ledger, whether ws.close() was called, the banner and
\* the pending flag.

\* if (data.error) { updateSessionMessage(...); ws.close(); return; }
OnErrorFrame(st, f, ss, t) ==
  [botMessage |-> st.botMessage, currentMetrics |-> st.currentMetrics,
   sessions |-> updateSessionMessage(ss, st.sid, st.botMessageId,
                  BotPatch(ErrorFrameText(st.botMessage, f.error), NOKEY), t),
   closed |-> TRUE, banner |-> NOKEY, pendingOff |-> FALSE, outcome |-> "errored"]

\* the limit branch without its ws.close()
OnLimitFrameLeftOpen(st, f, ss, t) ==
  [botMessage |-> st.botMessage, currentMetrics |-> st.currentMetrics,
   sessions |-> updateSessionMessage(ss, st.sid, st.botMessageId,
                  BotPatch(LimitText(f), NOKEY), t),
   closed |-> FALSE, banner |-> LimitText(f), pendingOff |-> TRUE,
   outcome |-> "limit"]

\* if (data.limit_reached) { setLimitReachedMessage(...); setIsPending(false);
\*   updateSessionMessage(...); ws.close(); return; }
OnLimitFrame(st, f, ss, t) ==
  [botMessage |-> st.botMessage, currentMetrics |-> st.currentMetrics,
   sessions |-> updateSessionMessage(ss, st.sid, st.botMessageId,
                  BotPatch(LimitText(f), NOKEY), t),
   closed |-> TRUE, banner |-> LimitText(f), pendingOff |-> TRUE,
   outcome |-> "limit"]

\* the same tests, the text update written without the metrics kept so far
OnDataFrameTextDropsMetric(st, f, ss, t) ==
  LET bm == IF Truthy(f.partial_response)
            THEN AppendFragment(st.botMessage, f.partial_response)
            ELSE st.botMessage
      s1 == IF Truthy(f.partial_response)
            THEN updateSessionMessage(ss, st.sid, st.botMessageId,
                                      BotPatch(bm, UNDEFINED), t)
            ELSE ss
      cm == IF Truthy(f.metric) THEN f.metric ELSE st.currentMetrics
      s2 == IF Truthy(f.metric)
            THEN updateSessionMessage(s1, st.sid, st.botMessageId,
                                      BotPatch(bm, cm), t)
            ELSE s1
  IN [botMessage |-> bm, currentMetrics |-> cm, sessions |-> s2,
      closed |-> f.complete, banner |-> NOKEY, pendingOff |-> FALSE,
      outcome |-> IF f.complete THEN "complete" ELSE st.outcome]

\* the partial_response, metric and complete tests of a frame that is neither
OnDataFrame(st, f, ss, t) ==
  LET bm == IF Truthy(f.partial_response)
            THEN AppendFragment(st.botMessage, f.partial_response)
            ELSE st.botMessage
      s1 == IF Truthy(f.partial_response)
            THEN updateSessionMessage(ss, st.sid, st.botMessageId,
                                      BotPatch(bm, st.currentMetrics), t)
            ELSE ss
      cm == IF Truthy(f.metric) THEN f.metric ELSE st.currentMetrics
      s2 == IF Truthy(f.metric)
            THEN updateSessionMessage(s1, st.sid, st.botMessageId,
                                      BotPatch(bm, cm), t)
            ELSE s1
  IN [botMessage |-> bm, currentMetrics |-> cm, sessions |-> s2,
      closed |-> f.complete, banner |-> NOKEY, pendingOff |-> FALSE,
      outcome |-> IF f.complete THEN "complete" ELSE st.outcome]

\* ws.onmessage
OnMessage(st, f, ss, t) ==
  IF Truthy(f.error) THEN OnErrorFrame(st, f, ss, t)
  ELSE IF f.limit_reached THEN OnLimitFrame(st, f, ss, t)
  ELSE OnDataFrame(st, f, ss, t)

\* handleSubmit, rejected: no active session (alert, pending flag reset)
SubmitNoSession(content) ==
  /\ ~isPending
  /\ currentSessionId = NoSession
  /\ limitReachedMessage' = NULL
  /\ isPending' = FALSE
  /\ UNCHANGED <<sessions, currentSessionId, issued, now, nextId, streams,
                 isFilesVisible, providerVars, issuedCalls, lastSettled,
                 ingestVars>>

\* the same rejection, the text tested after the user message is added
SubmitBlankAfterUserMessage(content) ==
  /\ ~isPending
  /\ currentSessionId # NoSession
  /\ Trim(content) = ""
  /\ limitReachedMessage' = NULL
  /\ isPending' = TRUE
  /\ sessions' = addMessageToSession(sessions, currentSessionId, "user",
                                     content, nextId, now)
  /\ nextId' = nextId + 1
  /\ UNCHANGED <<currentSessionId, issued, now, streams,
                 isFilesVisible, providerVars, issuedCalls, lastSettled,
                 ingestVars>>

\* handleSubmit, rejected: the text is empty after trimming (bare return)
SubmitBlank(content) ==
  /\ ~isPending
  /\ currentSessionId # NoSession
  /\ Trim(content) = ""
  /\ limitReachedMessage' = NULL
  /\ isPending' = TRUE
  /\ UNCHANGED <<sessions, currentSessionId, issued, now, nextId, streams,
                 isFilesVisible, providerVars, issuedCalls, lastSettled,
                 ingestVars>>

\* handleSubmit, accepted: user message, bot placeholder, new WebSocket
SubmitQuestion(content) ==
  /\ ~isPending
  /\ currentSessionId # NoSession
  /\ Trim(content) # ""
  /\ Len(streams) < MaxSubmits
  /\ limitReachedMessage' = NULL
  /\ isPending' = TRUE
  /\ sessions' = addMessageToSession(
                   addMessageToSession(sessions, currentSessionId, "user",
                                       content, nextId, now),
                   currentSessionId, "bot", "", nextId + 1, now)
  /\ nextId' = nextId + 2
  /\ streams' = Append(streams, NewStream(currentSessionId, nextId + 1, content))
  /\ UNCHANGED <<currentSessionId, issued, now, isFilesVisible, providerVars,
                 issuedCalls, lastSettled,
                 ingestVars>>

\* ws.onopen: send the query envelope
WsOpen(i) ==
  /\ streams[i].ws = "connecting"
  /\ streams' = [streams EXCEPT ![i].ws = "open", ![i].sent = @ + 1]
  /\ UNCHANGED <<sessions, currentSessionId, issued, now, nextId, isPending,
                 limitReachedMessage, isFilesVisible, providerVars,
                 issuedCalls, lastSettled,
                 ingestVars>>

\* ws.onmessage for one frame (message events are delivered only while OPEN)
WsMessage(i, f) ==
  /\ streams[i].ws = "open"
  /\ Len(streams[i].botMessage) + Len(f.partial_response) <= MaxText
  /\ LET r == OnMessage(streams[i], f, sessions, now) IN
       /\ sessions' = r.sessions
       /\ streams' = [streams EXCEPT
                        ![i].botMessage = r.botMessage,
                        ![i].currentMetrics = r.currentMetrics,
                        ![i].ws = IF r.closed THEN "closing" ELSE @,
                        ![i].received = IF Truthy(f.partial_response)
                                        THEN @ \o f.partial_response ELSE @,
                        ![i].outcome = r.outcome]
       /\ limitReachedMessage' =
            IF r.banner = NOKEY THEN limitReachedMessage ELSE r.banner
       /\ isPending' = IF r.pendingOff THEN FALSE ELSE isPending
  /\ UNCHANGED <<currentSessionId, issued, now, nextId, isFilesVisible,
                 providerVars, issuedCalls, lastSettled,
                 ingestVars>>

\* the same handlers, with a new connection attempt on the socket's record
WsErrorReconnects(i) ==
  /\ streams[i].ws \in {"connecting", "open", "closing"}
  /\ sessions' = updateSessionMessage(sessions, streams[i].sid,
                   streams[i].botMessageId,
                   BotPatch(TransportErrorText(streams[i].botMessage),
                            streams[i].currentMetrics), now)
  /\ streams' = [streams EXCEPT ![i].ws = "connecting", ![i].outcome = "errored"]
  /\ isPending' = FALSE
  /\ isFilesVisible' = TRUE
  /\ UNCHANGED <<currentSessionId, issued, now, nextId, limitReachedMessage,
                 providerVars, issuedCalls, lastSettled,
                 ingestVars>>

\* the connection fails: ws.onerror, then ws.onclose, in one task
WsError(i) ==
  /\ streams[i].ws \in {"connecting", "open", "closing"}
  /\ sessions' = updateSessionMessage(sessions, streams[i].sid,
                   streams[i].botMessageId,
                   BotPatch(TransportErrorText(streams[i].botMessage),
                            streams[i].currentMetrics), now)
  /\ streams' = [streams EXCEPT ![i].ws = "closed", ![i].outcome = "errored"]
  /\ isPending' = FALSE
  /\ isFilesVisible' = TRUE
  /\ UNCHANGED <<currentSessionId, issued, now, nextId, limitReachedMessage,
                 providerVars, issuedCalls, lastSettled,
                 ingestVars>>

\* the connection closes (by the peer, or the closing handshake ends): ws.onclose
WsClose(i) ==
  /\ streams[i].ws \in {"open", "closing"}
  /\ streams' = [streams EXCEPT
                   ![i].ws = "closed",
                   ![i].outcome = IF @ = "none" THEN "complete" ELSE @]
  /\ isPending' = FALSE
  /\ isFilesVisible' = TRUE
  /\ UNCHANGED <<sessions, currentSessionId, issued, now, nextId,
                 limitReachedMessage, providerVars, issuedCalls, lastSettled,
                 ingestVars>>

----------------------------------------------------------------------------
(* Repository ingestion (Sidebar, useGithubUrl, useFileUpload) and the
   simulated progress display (UploadProgress) *)

\* the texts typed into the repository URL field
Urls == {"github.com/a/w", "a/w"}
\* the folders offered to the folder picker, named by their top-level folder
Folders == {"dir"}
UploadErrorText == "An unexpected error occurred. Please try again."

\* [a-zA-Z0-9-_] and [\w\-]
WordChars ==
  {"a", "b", "c", "d", "e", "f", "g", "h", "i", "j", "k", "l", "m", "n", "o",
   "p", "q", "r", "s", "t", "u", "v", "w", "x", "y", "z", "A", "B", "C", "D",
   "E", "F", "G", "H", "I", "J", "K", "L", "M", "N", "O", "P", "Q", "R", "S",
   "T", "U", "V", "W", "X", "Y", "Z", "0", "1", "2", "3", "4", "5", "6", "7",
   "8", "9", "_", "-"}
Host == "github.com/"
CharAt(s, i) == SubSeq(s, i, i)
\* the positions at which p occurs in s
Occurrences(s, p) ==
  {i \in 1..(Len(s) - Len(p) + 1) : SubSeq(s, i, i + Len(p) - 1) = p}
\* the length of the run of characters of s from position i on that are in
\* the set chars (allowed) or are not in it (not allowed)
RunLength(s, i, chars, allowed) ==
  LET stops == {j \in i..Len(s) : (CharAt(s, j) \in chars) # allowed}
  IN IF stops = {} THEN Len(s) - i + 1
     ELSE (CHOOSE j \in stops : \A k \in stops : j <= k) - i
IsWord(s) == Len(s) > 0 /\ \A i \in 1..Len(s) : CharAt(s, i) \in WordChars

\* extractRepoName: /github\.com\/([^\/]+)\/([^\/]+)(\.git)?/, second group
\* of the leftmost match
extractRepoName(url) ==
  LET Owner(i) == RunLength(url, i + Len(Host), {"/"}, FALSE)
      RepoAt(i) == i + Len(Host) + Owner(i) + 1
      Matches(i) == /\ Owner(i) > 0
                    /\ RepoAt(i) <= Len(url)
                    /\ CharAt(url, RepoAt(i) - 1) = "/"
                    /\ RunLength(url, RepoAt(i), {"/"}, FALSE) > 0
      hits == {i \in Occurrences(url, Host) : Matches(i)}
  IN IF hits = {} THEN ""
     ELSE LET i == CHOOSE h \in hits : \A k \in hits : h <= k
          IN SubSeq(url, RepoAt(i),
                    RepoAt(i) + RunLength(url, RepoAt(i), {"/"}, FALSE) - 1)

\* isValidGithubUrl:
\* /^(https?:\/\/)?([a-zA-Z0-9-_]+)?(?::([a-zA-Z0-9-_]+))?@?github\.com\/([\w\-]+)\/([\w\-]+)/
isValidGithubUrl(url) ==
  LET InWord(c) == c \in WordChars
      Credentials(r) ==
        \/ r = ""
        \/ IsWord(r)
        \/ \E k \in 1..Len(r) :
             /\ CharAt(r, k) = ":"
             /\ (k = 1 \/ IsWord(SubSeq(r, 1, k - 1)))
             /\ IsWord(SubSeq(r, k + 1, Len(r)))
      BeforeHost(r) ==
        \/ Credentials(r)
        \/ Len(r) > 0 /\ CharAt(r, Len(r)) = "@"
                      /\ Credentials(SubSeq(r, 1, Len(r) - 1))
      Lead(r) ==
        \/ BeforeHost(r)
        \/ \E scheme \in {"http://", "https://"} :
             IsPrefix(scheme, r) /\ BeforeHost(SubSeq(r, Len(scheme) + 1, Len(r)))
      Owner(i) == RunLength(url, i + Len(Host), WordChars, TRUE)
      Path(i) == \E n \in 1..Owner(i) :
                   /\ i + Len(Host) + n + 1 <= Len(url)
                   /\ CharAt(url, i + Len(Host) + n) = "/"
                   /\ InWord(CharAt(url, i + Len(Host) + n + 1))
  IN \E i \in Occurrences(url, Host) : Lead(SubSeq(url, 1, i - 1)) /\ Path(i)

\* UploadProgress: steps[step].duration, in milliseconds
Duration(step) ==
  CASE step = "uploading" -> 2000
    [] step = "chunking" -> 3000
    [] step = "indexing" -> 2000
    [] step = "storing" -> 2000
    [] step = "processing" -> 5000
    [] step = "complete" -> 0
    [] step = "error" -> 0
\* the order of steps with 'storing' left out
stepSequenceWithoutStoring ==
  <<"uploading", "chunking", "indexing", "processing", "complete">>
\* UploadProgress: stepSequence
stepSequence ==
  <<"uploading", "chunking", "indexing", "storing", "processing", "complete">>
IndexOfStep(step) == CHOOSE i \in 1..Len(stepSequence) : stepSequence[i] = step
\* the period of the interval that advances timeInStep, in milliseconds
TickMs == 100

\* UploadProgress is rendered while the dialog shows an upload
Mounted == isInputVisible /\ isUploading
\* the display's effects after an unmount or with isActive false: a fresh display
ResetProgress == <<"uploading", 0>>

\* one uploadUrl / uploadFiles call: the remote call it awaits
Attempt(kind, source) ==
  [kind |-> kind, source |-> source, pc |-> "identity", sid |-> NoSession]

\* "New Chat": setInputVisible(true)
OpenDialog ==
  /\ ~isInputVisible
  /\ isInputVisible' = TRUE
  /\ UNCHANGED <<sessions, currentSessionId, issued, now, nextId, chatVars,
                 providerVars, issuedCalls, lastSettled, newSessionName,
                 githubUrl, selectedFiles, isUploading, uploadError,
                 sessionIdUrl, sessionIdf, progressVars, attempts,
                 started>>

\* the dialog's close and Cancel buttons: setInputVisible(false); the close
\* button is disabled and Cancel is not rendered while isUploading
CloseDialog ==
  /\ isInputVisible /\ ~isUploading
  /\ isInputVisible' = FALSE
  /\ UNCHANGED <<sessions, currentSessionId, issued, now, nextId, chatVars,
                 providerVars, issuedCalls, lastSettled, newSessionName,
                 githubUrl, selectedFiles, isUploading, uploadError,
                 sessionIdUrl, sessionIdf, progressVars, attempts,
                 started>>

\* the URL field's onChange: setNewSessionName(value); handleUrlChange(value)
HandleUrlChange(url) ==
  /\ isInputVisible /\ ~isUploading
  /\ newSessionName' = url
  /\ githubUrl' = url
  /\ UNCHANGED <<sessions, currentSessionId, issued, now, nextId, chatVars,
                 providerVars, issuedCalls, lastSettled, isInputVisible,
                 selectedFiles, isUploading, uploadError, sessionIdUrl,
                 sessionIdf, progressVars, attempts,
                 started>>

\* handleFileChange, with onFileUpload = ChatPage.handleFileUpload
HandleFileChange(folder) ==
  /\ isInputVisible /\ ~isUploading
  /\ selectedFiles' = folder
  /\ newSessionName' = folder
  /\ isFilesVisible' = TRUE
  /\ UNCHANGED <<sessions, currentSessionId, issued, now, nextId, streams,
                 isPending, limitReachedMessage, providerVars, issuedCalls,
                 lastSettled, isInputVisible, githubUrl, isUploading,
                 uploadError, sessionIdUrl, sessionIdf, progressVars,
                 attempts,
                 started>>

\* handleCreateSession up to its first await ("Create Chat" is rendered only
\* while not isUploading)
HandleCreateSession ==
  /\ isInputVisible /\ ~isUploading
  /\ Truthy(newSessionName)
  /\ isUploading' = TRUE
  /\ uploadError' = NULL
  /\ IF Truthy(githubUrl)
     THEN /\ newSessionName' = extractRepoName(githubUrl)
          /\ IF isValidGithubUrl(githubUrl)
             THEN /\ started < MaxAttempts
                  /\ attempts' = Append(attempts, Attempt("url", githubUrl))
                  /\ started' = started + 1
             ELSE UNCHANGED <<attempts, started>>
     ELSE /\ newSessionName' = newSessionName
          /\ IF selectedFiles # NULL
             THEN /\ started < MaxAttempts
                  /\ attempts' = Append(attempts, Attempt("files", selectedFiles))
                  /\ started' = started + 1
             ELSE UNCHANGED <<attempts, started>>
  /\ UNCHANGED <<sessions, currentSessionId, issued, now, nextId, chatVars,
                 providerVars, issuedCalls, lastSettled, isInputVisible,
                 githubUrl, selectedFiles, sessionIdUrl, sessionIdf,
                 progressVars>>

\* api.createSession resolves; the attempt goes on to api.uploadRepository
IdentityOk(k) ==
  /\ k \in 1..Len(attempts)
  /\ attempts[k].pc = "identity"
  /\ attempts' = [attempts EXCEPT ![k].pc = "upload"]
  /\ UNCHANGED <<sessions, currentSessionId, issued, now, nextId, chatVars,
                 providerVars, issuedCalls, lastSettled, sidebarVars,
                 sessionIdUrl, sessionIdf, progressVars,
                 started>>

\* the upload resolves and the attempt goes straight on to api.getStats
UploadOkSkipsStore(k) ==
  /\ k \in 1..Len(attempts)
  /\ attempts[k].pc = "upload"
  /\ issued < MaxSessions
  /\ issued' = issued + 1
  /\ attempts' = [attempts EXCEPT ![k].pc = "stats", ![k].sid = issued + 1]
  /\ IF attempts[k].kind = "url"
     THEN sessionIdUrl' = issued + 1 /\ sessionIdf' = sessionIdf
     ELSE sessionIdf' = issued + 1 /\ sessionIdUrl' = sessionIdUrl
  /\ sessions' = createSession(sessions, newSessionName, issued + 1, now)
  /\ currentSessionId' = issued + 1
  /\ newSessionName' = ""
  /\ UNCHANGED <<now, nextId, chatVars, providerVars, issuedCalls, lastSettled,
                 isInputVisible, githubUrl, selectedFiles, isUploading,
                 uploadError, progressVars, started>>

\* api.uploadRepository resolves with a new session id: setSessionId /
\* setsessionIdf, then the Sidebar effect on that id runs
\* createSession(newSessionName, id) and setNewSessionName(""); the attempt
\* goes on to api.storeRepository
UploadOk(k) ==
  /\ k \in 1..Len(attempts)
  /\ attempts[k].pc = "upload"
  /\ issued < MaxSessions
  /\ issued' = issued + 1
  /\ attempts' = [attempts EXCEPT ![k].pc = "store", ![k].sid = issued + 1]
  /\ IF attempts[k].kind = "url"
     THEN sessionIdUrl' = issued + 1 /\ sessionIdf' = sessionIdf
     ELSE sessionIdf' = issued + 1 /\ sessionIdUrl' = sessionIdUrl
  /\ sessions' = createSession(sessions, newSessionName, issued + 1, now)
  /\ currentSessionId' = issued + 1
  /\ newSessionName' = ""
  /\ UNCHANGED <<now, nextId, chatVars, providerVars, issuedCalls, lastSettled,
                 isInputVisible, githubUrl, selectedFiles, isUploading,
                 uploadError, progressVars,
                 started>>

\* api.storeRepository resolves; the attempt goes on to api.getStats
StoreOk(k) ==
  /\ k \in 1..Len(attempts)
  /\ attempts[k].pc = "store"
  /\ attempts' = [attempts EXCEPT ![k].pc = "stats"]
  /\ UNCHANGED <<sessions, currentSessionId, issued, now, nextId, chatVars,
                 providerVars, issuedCalls, lastSettled, sidebarVars,
                 sessionIdUrl, sessionIdf, progressVars,
                 started>>

\* api.getStats resolves: the attempt returns the statistics to
\* handleCreateSession, which leaves isUploading as it is
StatsOk(k) ==
  /\ k \in 1..Len(attempts)
  /\ attempts[k].pc = "stats"
  /\ attempts' = RemoveAt(attempts, k)
  /\ UNCHANGED <<sessions, currentSessionId, issued, now, nextId, chatVars,
                 providerVars, issuedCalls, lastSettled, sidebarVars,
                 sessionIdUrl, sessionIdf, progressVars,
                 started>>

\* the messages of the errors api.* throws: handleResponse's
\* `HTTP error! status: ${response.status}` and fetch's network failure
RejectionTexts == {"HTTP error! status: 500", "Failed to fetch"}

\* the awaited remote call rejects with an Error whose message is err: the
\* hook rethrows it, handleCreateSession catches it, logs it and sets
\* uploadError to its fixed text
AttemptFailWith(k, err) ==
  /\ k \in 1..Len(attempts)
  /\ err \in RejectionTexts
  /\ attempts' = RemoveAt(attempts, k)
  /\ uploadError' = UploadErrorText
  /\ UNCHANGED <<sessions, currentSessionId, issued, now, nextId, chatVars,
                 providerVars, issuedCalls, lastSettled, isInputVisible,
                 newSessionName, githubUrl, selectedFiles, isUploading,
                 sessionIdUrl, sessionIdf, progressVars,
                 started>>

\* the awaited remote call rejects, with any message
AttemptFail(k) == \E err \in RejectionTexts : AttemptFailWith(k, err)

\* the effects of UploadProgress have work to do in the current render
ErrorEffectPending == Mounted /\ uploadError # NULL /\ currentStep # "error"
AdvanceEffectPending ==
  /\ Mounted
  /\ currentStep \notin {"complete", "error"}
  /\ timeInStep >= Duration(currentStep)
CompleteEffectPending == Mounted /\ currentStep = "complete"
EffectPending ==
  ErrorEffectPending \/ AdvanceEffectPending \/ CompleteEffectPending

\* the callbacks of the interval still to run before the step's duration has
\* elapsed
CallbacksLeft ==
  LET left == Duration(currentStep) - timeInStep
  IN IF left <= 0 THEN 0 ELSE (left + TickMs - 1) \div TickMs
Min(a, b) == IF a <= b THEN a ELSE b

\* the interval set while isActive and no error: setTimeInStep(prev => prev + 100),
\* for a burst of callbacks that ends when the step's duration has elapsed
ProgressTick ==
  /\ Mounted /\ uploadError = NULL
  /\ CallbacksLeft > 0
  /\ timeInStep' = timeInStep + Min(MaxBurst, CallbacksLeft) * TickMs
  /\ UNCHANGED <<sessions, currentSessionId, issued, now, nextId, chatVars,
                 providerVars, issuedCalls, lastSettled, sidebarVars,
                 sessionIdUrl, sessionIdf, currentStep, attempts,
                 started>>

\* effect on [isActive, error]: setCurrentStep('error')
ProgressError ==
  /\ ErrorEffectPending
  /\ currentStep' = "error"
  /\ UNCHANGED <<sessions, currentSessionId, issued, now, nextId, chatVars,
                 providerVars, issuedCalls, lastSettled, sidebarVars,
                 sessionIdUrl, sessionIdf, timeInStep, attempts,
                 started>>

\* effect on [timeInStep, currentStep, onComplete]: the next step of
\* stepSequence once the step's duration has elapsed
ProgressAdvance ==
  /\ AdvanceEffectPending
  /\ IndexOfStep(currentStep) < Len(stepSequence)
  /\ currentStep' = stepSequence[IndexOfStep(currentStep) + 1]
  /\ timeInStep' = 0
  /\ UNCHANGED <<sessions, currentSessionId, issued, now, nextId, chatVars,
                 providerVars, issuedCalls, lastSettled, sidebarVars,
                 sessionIdUrl, sessionIdf, attempts,
                 started>>

\* the same effect at 'complete': onComplete() = handleUploadComplete, after
\* which the display is unmounted
ProgressComplete ==
  /\ CompleteEffectPending
  /\ githubUrl' = ""
  /\ selectedFiles' = NULL
  /\ isInputVisible' = FALSE
  /\ isUploading' = FALSE
  /\ currentStep' = ResetProgress[1]
  /\ timeInStep' = ResetProgress[2]
  /\ UNCHANGED <<sessions, currentSessionId, issued, now, nextId, chatVars,
                 providerVars, issuedCalls, lastSettled, newSessionName,
                 uploadError, sessionIdUrl, sessionIdf, attempts,
                 started>>

----------------------------------------------------------------------------
(* Specifications *)

Init ==
  /\ sessions = <<>>
  /\ currentSessionId = NoSession
  /\ issued = 0
  /\ now = 0
  /\ nextId = 1
  /\ streams = <<>>
  /\ isPending = FALSE
  /\ limitReachedMessage = NULL
  /\ isFilesVisible = FALSE
  /\ email = NULL
  /\ hasFetched = FALSE
  /\ isLoading = FALSE
  /\ calls = <<>>
  /\ issuedCalls = [rename |-> 0, delete |-> 0]
  /\ lastSettled = NoneSettled
  /\ isInputVisible = FALSE
  /\ newSessionName = ""
  /\ githubUrl = ""
  /\ selectedFiles = NULL
  /\ isUploading = FALSE
  /\ uploadError = NULL
  /\ sessionIdUrl = NoSession
  /\ sessionIdf = NoSession
  /\ currentStep = "uploading"
  /\ timeInStep = 0
  /\ attempts = <<>>
  /\ started = 0

\* the chat page: sessions are created and selected, questions are streamed
NextStream ==
  \/ \E name \in {"n1"} : CreateSession(name)
  \/ \E sid \in AllSessionIds : SelectSession(sid)
  \/ \E c \in Contents : SubmitNoSession(c)
  \/ \E c \in Contents : SubmitBlank(c)
  \/ \E c \in Contents : streams = <<>> /\ SubmitQuestion(c)
  \/ \E i \in 1..Len(streams) : WsOpen(i)
  \/ \E i \in 1..Len(streams), f \in Frames : WsMessage(i, f)
  \/ \E i \in 1..Len(streams) : WsError(i)
  \/ \E i \in 1..Len(streams) : WsClose(i)
  \/ Tick

SpecStream == Init /\ [][NextStream]_vars

\* the ledger under hydration: a question is streamed while the session list
\* is fetched and replaces the catalog
NextLedger ==
  \/ \E name \in {"n1"} : CreateSession(name)
  \/ \E c \in Contents : streams = <<>> /\ SubmitQuestion(c)
  \/ \E i \in 1..Len(streams) : WsOpen(i)
  \/ \E i \in 1..Len(streams), f \in Frames : WsMessage(i, f)
  \/ \E i \in 1..Len(streams) : WsError(i)
  \/ \E i \in 1..Len(streams) : WsClose(i)
  \/ FetchUser
  \/ \E k \in 1..Len(calls), chats \in ListPayloads : ListOk(k, chats)
  \/ \E k \in 1..Len(calls) : ListFail(k)
  \/ Tick

SpecLedger == Init /\ [][NextLedger]_vars

\* the sidebar's rename: sessions are created, hydrated, selected and
\* renamed while the backend answers in any order
NextRename ==
  \/ \E name \in {"n1"} : CreateSession(name)
  \/ \E sid \in AllSessionIds : SelectSession(sid)
  \/ FetchUser
  \/ \E k \in 1..Len(calls), chats \in ListPayloads : ListOk(k, chats)
  \/ \E k \in 1..Len(calls) : ListFail(k)
  \/ \E sid \in AllSessionIds, name \in Names : RenameIssue(sid, name)
  \/ \E k \in 1..Len(calls) : RenameOk(k)
  \/ \E k \in 1..Len(calls) : CallFail(k)

SpecRename == Init /\ [][NextRename]_vars

\* the sidebar's delete: sessions are created, hydrated, selected and
\* deleted while the backend answers in any order
NextDelete ==
  \/ \E name \in {"n1"} : CreateSession(name)
  \/ \E sid \in AllSessionIds : SelectSession(sid)
  \/ FetchUser
  \/ \E k \in 1..Len(calls), chats \in ListPayloads : ListOk(k, chats)
  \/ \E k \in 1..Len(calls) : ListFail(k)
  \/ \E sid \in AllSessionIds : DeleteIssue(sid)
  \/ \E k \in 1..Len(calls) : DeleteOk(k)
  \/ \E k \in 1..Len(calls) : CallFail(k)
  \/ \E sid \in AllSessionIds : DeleteNoEmail(sid)

SpecDelete == Init /\ [][NextDelete]_vars

\* the sidebar's rename and delete together
NextCatalog ==
  \/ \E name \in {"n1"} : CreateSession(name)
  \/ \E sid \in AllSessionIds : SelectSession(sid)
  \/ FetchUser
  \/ \E k \in 1..Len(calls), chats \in ListPayloads : ListOk(k, chats)
  \/ \E k \in 1..Len(calls) : ListFail(k)
  \/ /\ issuedCalls.rename + issuedCalls.delete < MaxCalls
     /\ \/ \E sid \in AllSessionIds : RenameIssue(sid, "n2")
        \/ \E sid \in AllSessionIds : DeleteIssue(sid)
  \/ \E k \in 1..Len(calls) : RenameOk(k)
  \/ \E k \in 1..Len(calls) : DeleteOk(k)
  \/ \E k \in 1..Len(calls) : CallFail(k)

SpecCatalog == Init /\ [][NextCatalog]_vars

\* one frame of each tag
ChatFrames ==
  {Frame("", FALSE, "", "a", NOKEY, FALSE),
   Frame("", FALSE, "", "", "m1", FALSE),
   Frame("", TRUE, "", "", NOKEY, FALSE),
   Frame("e", FALSE, "", "", NOKEY, FALSE),
   Frame("", FALSE, "", "", NOKEY, TRUE)}

\* the page once the user is known and the session list has failed: what
\* FetchUser then ListFail leave
InitChat ==
  /\ sessions = <<>>
  /\ currentSessionId = NoSession
  /\ issued = 0
  /\ now = 0
  /\ nextId = 1
  /\ streams = <<>>
  /\ isPending = FALSE
  /\ limitReachedMessage = NULL
  /\ isFilesVisible = FALSE
  /\ email = UserEmail
  /\ hasFetched = TRUE
  /\ isLoading = FALSE
  /\ calls = <<>>
  /\ issuedCalls = [rename |-> 0, delete |-> 0]
  /\ lastSettled = Settled(Call("list", NoSession, "", NoSession, <<>>), FALSE)
  /\ isInputVisible = FALSE
  /\ newSessionName = ""
  /\ githubUrl = ""
  /\ selectedFiles = NULL
  /\ isUploading = FALSE
  /\ uploadError = NULL
  /\ sessionIdUrl = NoSession
  /\ sessionIdf = NoSession
  /\ currentStep = "uploading"
  /\ timeInStep = 0
  /\ attempts = <<>>
  /\ started = 0

\* the chat page with the sidebar, the user known: a question is streamed
\* while sessions are created (which moves the selection), renamed and
\* deleted and the backend answers in any order
NextChat ==
  \/ \E name \in {"n1"} : CreateSession(name)
  \/ \E c \in {" q"} : streams = <<>> /\ SubmitQuestion(c)
  \/ \E i \in 1..Len(streams) : WsOpen(i)
  \/ \E i \in 1..Len(streams), f \in ChatFrames : WsMessage(i, f)
  \/ \E i \in 1..Len(streams) : WsError(i)
  \/ \E i \in 1..Len(streams) : WsClose(i)
  \/ /\ issuedCalls.rename + issuedCalls.delete < MaxCalls
     /\ \/ \E sid \in AllSessionIds : RenameIssue(sid, "n2")
        \/ \E sid \in AllSessionIds : DeleteIssue(sid)
  \/ \E k \in 1..Len(calls) : RenameOk(k)
  \/ \E k \in 1..Len(calls) : DeleteOk(k)
  \/ \E k \in 1..Len(calls) : CallFail(k)

SpecChat == InitChat /\ [][NextChat]_vars

\* ingestion through the dialog, with the progress display; React runs the
\* display's effects before it handles the next event
NextIngest ==
  \/ /\ EffectPending
     /\ \/ ProgressError
        \/ ProgressAdvance
        \/ ProgressComplete
  \/ /\ ~EffectPending
     /\ \/ OpenDialog
        \/ CloseDialog
        \/ \E url \in Urls : HandleUrlChange(url)
        \/ \E folder \in Folders : HandleFileChange(folder)
        \/ HandleCreateSession
        \/ \E k \in 1..Len(attempts) : IdentityOk(k)
        \/ \E k \in 1..Len(attempts) : UploadOk(k)
        \/ \E k \in 1..Len(attempts) : StoreOk(k)
        \/ \E k \in 1..Len(attempts) : StatsOk(k)
        \/ \E k \in 1..Len(attempts) : AttemptFail(k)
        \/ ProgressTick
SpecIngest == Init /\ [][NextIngest]_vars

----------------------------------------------------------------------------
(* Properties of the query stream (SpecStream) *)

\* the ledger's record of the bot placeholder of a stream
BotMessageIn(ss, st) ==
  LET session == FindSession(ss, st.sid)
  IN session.messages[CHOOSE k \in MessageIndex(session, st.botMessageId) : TRUE]
StreamIds == 1..Len(streams)

\* C1: as long as a question's stream has seen no error frame, no limit frame
\* and no transport error, the text of its bot placeholder is the
\* concatenation, in order of receipt, of the partial-text fragments received
\* so far: nothing dropped, doubled or reordered.
C1_PartialTextIsConcatenation ==
  \A i \in StreamIds :
    streams[i].outcome \in {"none", "complete"}
      => BotMessageIn(sessions, streams[i]).text = streams[i].received

\* C1: two different fragments have arrived and the placeholder shows both
C1_Witness ==
  \E i \in StreamIds :
    /\ streams[i].outcome \in {"none", "complete"}
    /\ streams[i].received = "ab"
    /\ BotMessageIn(sessions, streams[i]).text = "ab"

\* C3: handling a limit frame sets the bot placeholder's text and the banner
\* to the frame's message (the default notice when it has none), whatever
\* partial text had arrived, and closes the socket; from then on no frame
\* reaches the handler, and the placeholder changes only if the connection
\* itself fails.
C3_LimitFrameOverwritesAndCloses ==
  [][\A i \in StreamIds :
       /\ \A f \in LimitFrames :
            WsMessage(i, f) =>
              LET notice == IF f.message = "" THEN DefaultLimitText ELSE f.message
              IN /\ BotMessageIn(sessions', streams[i]).text = notice
                 /\ limitReachedMessage' = notice
                 /\ streams'[i].ws = "closing"
       /\ streams[i].outcome = "limit" =>
            /\ \A f \in Frames : ~ENABLED WsMessage(i, f)
            /\ ~WsError(i) =>
                 BotMessageIn(sessions', streams[i]) = BotMessageIn(sessions, streams[i])
    ]_vars

\* C3: a limit frame without a message was handled after partial text: the
\* placeholder shows the default notice, so does the banner
C3_Witness ==
  \E i \in StreamIds :
    /\ streams[i].outcome = "limit"
    /\ streams[i].received # ""
    /\ BotMessageIn(sessions, streams[i]).text = DefaultLimitText
    /\ limitReachedMessage = DefaultLimitText
    /\ streams[i].ws = "closed"

\* C13: while a stream is open, a metrics frame sets the bot placeholder's
\* metric to its payload and leaves the text as it was, and a partial-text
\* frame leaves the metric as it was; the metric of an open stream is the
\* payload of the last metrics frame, and none before the first.
C13_TextAndMetricIndependent ==
  [][\A i \in StreamIds :
       /\ \A f \in MetricFrames :
            WsMessage(i, f) =>
              /\ BotMessageIn(sessions', streams[i]).text
                   = BotMessageIn(sessions, streams[i]).text
              /\ BotMessageIn(sessions', streams[i]).metric = f.metric
       /\ \A f \in PartialFrames :
            WsMessage(i, f) =>
              /\ BotMessageIn(sessions', streams[i]).metric
                   = BotMessageIn(sessions, streams[i]).metric
       /\ (streams[i].ws = "connecting" /\ streams[i].outcome = "none") =>
            BotMessageIn(sessions, streams[i]).metric = UNDEFINED
    ]_vars

\* C13: metrics arrived before the second fragment: the placeholder of the
\* open stream shows both fragments and the metrics
C13_Witness ==
  \E i \in StreamIds :
    /\ streams[i].ws = "open"
    /\ streams[i].received = "ab"
    /\ BotMessageIn(sessions, streams[i]).text = "ab"
    /\ BotMessageIn(sessions, streams[i]).metric = "m1"

\* C15: a step that calls updateSessionMessage (a frame or a transport error
\* of a stream) keeps the sessions, and in every session the number and order
\* of the messages with their ids and creation timestamps; every message
\* other than the stream's bot placeholder is unchanged in all its fields.
C15_UpdateKeepsShapeIdAndTimestamp ==
  [][\A i \in StreamIds :
       ((\E f \in Frames : WsMessage(i, f)) \/ WsError(i)) =>
         /\ Len(sessions') = Len(sessions)
         /\ \A j \in 1..Len(sessions) :
              /\ sessions'[j].session_id = sessions[j].session_id
              /\ Len(sessions'[j].messages) = Len(sessions[j].messages)
              /\ \A k \in 1..Len(sessions[j].messages) :
                   /\ sessions'[j].messages[k].id = sessions[j].messages[k].id
                   /\ sessions'[j].messages[k].timestamp
                        = sessions[j].messages[k].timestamp
                   /\ (\/ sessions[j].session_id # streams[i].sid
                       \/ sessions[j].messages[k].id # streams[i].botMessageId)
                        => sessions'[j].messages[k] = sessions[j].messages[k]
    ]_vars

\* C15: a placeholder created at time 0 was updated at time 1 (its session's
\* lastActive moved) and shows the received text; another session exists
C15_Witness ==
  \E i \in StreamIds :
    /\ Len(sessions) > 1
    /\ streams[i].received # ""
    /\ BotMessageIn(sessions, streams[i]).text = streams[i].received
    /\ BotMessageIn(sessions, streams[i]).timestamp = 0
    /\ FindSession(sessions, streams[i].sid).lastActive = 1

\* C17 (as claimed): once the stream of the question submitted on a session
\* without messages has completed (completion frame or close by the peer,
\* with no error), the session holds exactly two messages: the user message
\* with the submitted text, then a bot message with non-empty text.
C17_CompletedLedgerHasAnswer ==
  \A i \in StreamIds :
    (streams[i].outcome = "complete" /\ streams[i].ws = "closed") =>
      LET messages == FindSession(sessions, streams[i].sid).messages
      IN /\ Len(messages) = 2
         /\ messages[1].type = "user"
         /\ messages[1].text = streams[i].query
         /\ messages[2].type = "bot"
         /\ messages[2].text # ""

\* C18: a submission without a current session, or with a text that is
\* empty after trimming, opens no socket, sends nothing and leaves every
\* session as it was; a socket is only ever opened for a current session and
\* a text that is not blank.
C18_RejectedSubmissionDoesNothing ==
  [][/\ \A c \in Contents :
         (SubmitNoSession(c) \/ SubmitBlank(c)) =>
           /\ streams' = streams
           /\ sessions' = sessions
     /\ Len(streams') > Len(streams) =>
           /\ currentSessionId # NoSession
           /\ Trim(streams'[Len(streams')].query) # ""
           /\ streams'[Len(streams')].sent = 0
    ]_vars

\* C18: a blank text was submitted on a current session: the pending flag is
\* left set, no socket exists and the session has no message
C18_Witness ==
  /\ isPending
  /\ streams = <<>>
  /\ HasSession(sessions, currentSessionId)
  /\ FindSession(sessions, currentSessionId).messages = <<>>

\* C26: a socket is created only by an accepted submission, one per
\* submission; the query is sent on it once, by the step that opens it, and
\* frames are handled only after that; a socket that fails before it opens
\* has sent nothing, and no failure or close creates a socket or sends again.
C26_OneChannelOneSend ==
  [][/\ \A i \in StreamIds :
         /\ streams[i].sent <= 1
         /\ streams[i].ws = "connecting" =>
              streams[i].sent = 0 /\ streams[i].received = ""
         /\ streams'[i].sent # streams[i].sent =>
              /\ WsOpen(i)
              /\ streams[i].ws = "connecting"
              /\ streams'[i].sent = 1
         /\ \A f \in Frames : WsMessage(i, f) => streams[i].sent = 1
         /\ (WsError(i) \/ WsClose(i)) =>
              /\ Len(streams') = Len(streams)
              /\ streams'[i].sent = streams[i].sent
              /\ streams'[i].ws = "closed"
     /\ Len(streams') # Len(streams) =>
         /\ \E c \in Contents : SubmitQuestion(c)
         /\ Len(streams') = Len(streams) + 1
         /\ streams'[Len(streams')].ws = "connecting"
    ]_vars

\* C26: a stream failed after fragments had arrived: one socket, one send
C26_Witness ==
  /\ Len(streams) = 1
  /\ streams[1].ws = "closed" /\ streams[1].outcome = "errored"
  /\ streams[1].received # ""
  /\ streams[1].sent = 1

\* C27 (as claimed): once a stream has had its completion frame, an error
\* frame, a limit frame or a transport error, no step changes the text or
\* the metric of its bot placeholder.
C27_TerminalOutcomeIsAbsorbing ==
  [][\A i \in StreamIds :
       streams[i].outcome # "none" =>
         /\ BotMessageIn(sessions', streams[i]).text
              = BotMessageIn(sessions, streams[i]).text
         /\ BotMessageIn(sessions', streams[i]).metric
              = BotMessageIn(sessions, streams[i]).metric
    ]_vars

\* C29 (as claimed): a submission rejected by validation leaves the pending
\* flag false, and the close or the failure of a stream's socket sets it
\* false.
C29_PendingFlagReturns ==
  [][/\ \A c \in Contents :
         (SubmitNoSession(c) \/ SubmitBlank(c)) => ~isPending'
     /\ \A i \in StreamIds :
         (WsError(i) \/ WsClose(i)) => ~isPending'
    ]_vars

\* C4 (as claimed): when a stream has ended with an error, by an error frame
\* or by a transport error, the bot placeholder's text begins with the partial
\* text received and goes on with a notice.
C4_ErroredKeepsPartialText ==
  \A i \in StreamIds :
    (streams[i].outcome = "errored" /\ streams[i].ws = "closed")
      => /\ IsPrefix(streams[i].received, BotMessageIn(sessions, streams[i]).text)
         /\ BotMessageIn(sessions, streams[i]).text # streams[i].received

\* C5 (as claimed): while the current session is not the one a stream was
\* opened for, no step changes that stream's bot placeholder.
C5_NoUpdateAfterSwitch ==
  [][\A i \in StreamIds :
       currentSessionId # streams[i].sid
         => BotMessageIn(sessions', streams[i]) = BotMessageIn(sessions, streams[i])
    ]_vars

----------------------------------------------------------------------------
(* Properties of the ledger under hydration (SpecLedger) *)

\* the session and the bot placeholder of stream i are still in the catalog
TargetPresent(i) ==
  /\ HasSession(sessions, streams[i].sid)
  /\ MessageIndex(FindSession(sessions, streams[i].sid),
                  streams[i].botMessageId) # {}

\* C14 (as claimed): a frame or a transport error handled for a stream whose
\* session, or whose bot placeholder, is no longer in the catalog changes
\* nothing in the catalog.
C14_UnknownIdIsNoOp ==
  [][\A i \in StreamIds :
       (/\ ~TargetPresent(i)
        /\ \/ \E f \in Frames : WsMessage(i, f)
           \/ WsError(i))
         => sessions' = sessions
    ]_vars

\* C16 (as claimed): an accepted submission appends to the active session
\* the user message with the submitted text and then an empty bot placeholder
\* without metric, and nothing else; no frame, transport error or close
\* changes the number of messages of any session.
C16_OnePlaceholderPerQuestion ==
  [][/\ \A c \in Contents :
         SubmitQuestion(c) =>
           /\ HasSession(sessions', currentSessionId)
           /\ LET before == FindSession(sessions, currentSessionId).messages
                  after == FindSession(sessions', currentSessionId).messages
              IN /\ Len(after) = Len(before) + 2
                 /\ SubSeq(after, 1, Len(before)) = before
                 /\ after[Len(before) + 1].type = "user"
                 /\ after[Len(before) + 1].text = c
                 /\ after[Len(before) + 2].type = "bot"
                 /\ after[Len(before) + 2].text = ""
                 /\ after[Len(before) + 2].metric = UNDEFINED
     /\ \A i \in StreamIds :
         (\/ \E f \in Frames : WsMessage(i, f)
          \/ WsError(i)
          \/ WsClose(i))
           => /\ Len(sessions') = Len(sessions)
              /\ \A j \in 1..Len(sessions) :
                   Len(sessions'[j].messages) = Len(sessions[j].messages)
    ]_vars

\* C28: a frame or a transport error of a stream leaves every session other
\* than the one the question was submitted on exactly as it was, keeps the
\* catalog's sessions and their order, and in that session changes no
\* message other than the stream's placeholder and no message count,
\* whichever session is current by then.
C28_UpdatesStayInOwnSession ==
  [][\A i \in StreamIds :
       ((\E f \in Frames : WsMessage(i, f)) \/ WsError(i)) =>
         /\ Len(sessions') = Len(sessions)
         /\ \A j \in 1..Len(sessions) :
              IF sessions[j].session_id # streams[i].sid
              THEN sessions'[j] = sessions[j]
              ELSE /\ Len(sessions'[j].messages) = Len(sessions[j].messages)
                   /\ \A k \in 1..Len(sessions[j].messages) :
                        sessions[j].messages[k].id # streams[i].botMessageId
                          => sessions'[j].messages[k] = sessions[j].messages[k]
    ]_vars

\* C28: a session with messages of its own is current, the stream opened on
\* another session is still open and its placeholder, updated after the
\* other session's last change, shows the fragment received
C28_Witness ==
  \E i \in StreamIds :
    /\ streams[i].ws = "open"
    /\ currentSessionId # streams[i].sid
    /\ HasSession(sessions, currentSessionId)
    /\ TargetPresent(i)
    /\ BotMessageIn(sessions, streams[i]).text = "a"
    /\ FindSession(sessions, streams[i].sid).lastActive = 1
    /\ \E j \in 1..Len(sessions) :
         /\ sessions[j].session_id # streams[i].sid
         /\ sessions[j].messages # <<>>
         /\ sessions[j].lastActive = 0

\* C30 (as claimed): when the session list arrives, every session of the
\* catalog and every message of it is still there afterwards and the current
\* session id is none or names a session of the catalog; when the list call
\* fails the catalog is unchanged; the list is requested at most once.
C30_HydrationKeepsLocalState ==
  [][/\ \A k \in 1..Len(calls) :
         /\ \A chats \in ListPayloads :
              ListOk(k, chats) =>
                /\ \A j \in 1..Len(sessions) :
                     /\ HasSession(sessions', sessions[j].session_id)
                     /\ \A m \in 1..Len(sessions[j].messages) :
                          MessageIndex(
                            FindSession(sessions', sessions[j].session_id),
                            sessions[j].messages[m].id) # {}
                /\ \/ currentSessionId' = NoSession
                   \/ HasSession(sessions', currentSessionId')
         /\ ListFail(k) => sessions' = sessions
     /\ Cardinality({k \in 1..Len(calls') : calls'[k].op = "list"})
          + (IF hasFetched' THEN 0 ELSE 1) <= 1
    ]_vars

----------------------------------------------------------------------------
(* Properties of ingestion (SpecIngest) *)

AttemptIds == 1..Len(attempts)

\* C2 (as claimed): when a remote call of an ingestion attempt fails, the
\* catalog holds no session for that attempt.
C2_NoSessionForFailedAttempt ==
  [][\A k \in AttemptIds :
       AttemptFail(k) => ~HasSession(sessions', attempts[k].sid)
    ]_vars

\* C6 (as claimed): at most one ingestion attempt awaits its remote calls.
C6_OneAttemptInFlight == Len(attempts) <= 1

\* C12: the remote call an attempt awaits changes only along identity ->
\* upload -> storage -> statistics, one call at a time; an attempt starts at
\* the identity call; an attempt stops awaiting before its statistics call
\* has resolved only by a failure, which sets the upload error and issues no
\* further call for it.
C12Order == {<<"identity", "upload">>, <<"upload", "store">>, <<"store", "stats">>}
C12_CallsInFixedOrder ==
  [][/\ \/ attempts' = attempts
        \/ /\ Len(attempts') = Len(attempts) + 1
           /\ SubSeq(attempts', 1, Len(attempts)) = attempts
           /\ attempts'[Len(attempts')].pc = "identity"
        \/ \E k \in AttemptIds :
             /\ attempts' = RemoveAt(attempts, k)
             /\ attempts[k].pc # "stats" => uploadError' = UploadErrorText
        \/ /\ Len(attempts') = Len(attempts)
           /\ \E k \in AttemptIds :
                /\ \A j \in AttemptIds \ {k} : attempts'[j] = attempts[j]
                /\ attempts'[k].kind = attempts[k].kind
                /\ <<attempts[k].pc, attempts'[k].pc>> \in C12Order
     /\ \A k \in AttemptIds :
          AttemptFail(k) =>
            attempts' = RemoveAt(attempts, k) /\ started' = started
    ]_vars

\* C12: an attempt has had its identity, upload and storage calls resolved
\* and awaits the statistics
C12_Witness ==
  \E k \in AttemptIds : attempts[k].pc = "stats" /\ attempts[k].sid # NoSession

\* C20 (as claimed): when the last remote call of an attempt succeeds while
\* the display is shown at a stage before 'complete', the display is at
\* 'complete' right after that step.
C20_CompletionShortCircuits ==
  [][\A k \in AttemptIds :
       (/\ StatsOk(k)
        /\ Mounted
        /\ uploadError = NULL
        /\ currentStep # "complete")
         => currentStep' = "complete"
    ]_vars

\* C21 (as claimed): while a remote call of an attempt is outstanding, the
\* display does not show 'complete', and no step closes the dialog or ends
\* the upload.
C21_NoCompleteWhileOutstanding ==
  [][attempts # <<>> =>
       /\ ~(Mounted /\ currentStep = "complete")
       /\ (isUploading /\ Len(attempts') >= Len(attempts)) => isUploading'
    ]_vars

\* C22 (as claimed): when a remote call of an attempt rejects with an error
\* of message err, the display is shown and is at 'error', or its error
\* effect is about to put it there, and the text it shows is err.
C22_FailureShowsRealError ==
  [][\A k \in AttemptIds, err \in RejectionTexts :
       AttemptFailWith(k, err) =>
         /\ Mounted'
         /\ ErrorEffectPending' \/ currentStep' = "error"
         /\ uploadError' = err
    ]_vars

\* C24: the stage changes only to the next stage of uploading, chunking,
\* indexing, storing, processing, complete, or from a stage before complete
\* to 'error', or by a reset; 'error' and 'complete' are left only by a
\* reset; a reset is the display going away, and leaves 'uploading' with no
\* time elapsed.
C24Next ==
  {<<"uploading", "chunking">>, <<"chunking", "indexing">>,
   <<"indexing", "storing">>, <<"storing", "processing">>,
   <<"processing", "complete">>}
C24_StageMovesForwardOnly ==
  [][/\ currentStep' # currentStep =>
         \/ Mounted /\ Mounted' /\ <<currentStep, currentStep'>> \in C24Next
         \/ /\ Mounted /\ Mounted'
            /\ currentStep \notin {"complete", "error"}
            /\ currentStep' = "error"
         \/ Mounted /\ ~Mounted' /\ <<currentStep', timeInStep'>> = <<"uploading", 0>>
     /\ (Mounted /\ ~Mounted') => <<currentStep', timeInStep'>> = <<"uploading", 0>>
     /\ ~Mounted => <<currentStep, timeInStep>> = <<"uploading", 0>>
    ]_vars

\* C24: the display has gone through every stage up to 'complete'
C24_Witness == Mounted /\ currentStep = "complete"

----------------------------------------------------------------------------
(* Properties of delete (SpecDelete) *)

CallIds == 1..Len(calls)
CatalogIds == {sessions[i].session_id : i \in 1..Len(sessions)}

\* C7 (as claimed): when the backend acknowledges the delete of the session
\* that is current, the current session afterwards is one of the catalog, and
\* is none only if the catalog is empty.
C7_SelectionInCatalogAfterDelete ==
  [][\A k \in CallIds :
       (DeleteOk(k) /\ currentSessionId = calls[k].sid) =>
         LET left == {sessions'[i].session_id : i \in 1..Len(sessions')}
         IN IF left = {} THEN currentSessionId' = NoSession
            ELSE currentSessionId' \in left
    ]_vars

\* C8 (as claimed): when the backend acknowledges the delete of the current
\* session, nothing else having changed since the delete was issued, and
\* sessions remain, the current session becomes the last of the catalog.
C8_FallbackIsMostRecent ==
  [][\A k \in CallIds :
       (/\ DeleteOk(k)
        /\ currentSessionId = calls[k].sid /\ calls[k].cur0 = calls[k].sid
        /\ Ids(sessions) = calls[k].ids0
        /\ Len(sessions') > 0) =>
         currentSessionId' = sessions'[Len(sessions')].session_id
    ]_vars

\* C8 (amended): when the backend acknowledges the delete of the session that
\* was current when the delete was issued, the current session becomes the
\* first session other than the deleted one in the catalog as it was when the
\* delete was issued, and none if there was no other.
C8_FallbackIsFirstOfSnapshot ==
  [][\A k \in CallIds :
       (DeleteOk(k) /\ calls[k].cur0 = calls[k].sid) =>
         LET ids0 == calls[k].ids0
             others == {j \in 1..Len(ids0) : ids0[j] # calls[k].sid}
         IN IF others = {} THEN currentSessionId' = NoSession
            ELSE currentSessionId' =
                   ids0[CHOOSE j \in others : \A m \in others : j <= m]
    ]_vars

\* C8: the current session was deleted with two sessions left, and the
\* current session is now the first of them, not the last
C8_Witness ==
  /\ lastSettled.op = "delete" /\ lastSettled.ok /\ lastSettled.wasCurrent
  /\ Len(sessions) = 2
  /\ currentSessionId = sessions[1].session_id
  /\ currentSessionId # sessions[2].session_id

\* C25 (as claimed): the selection is never moved to an id that is not in the
\* catalog: a step that changes the current session id leaves it none or
\* the id of a session of the catalog.
C25_SelectOfAbsentIdRefused ==
  [][(currentSessionId' # currentSessionId /\ currentSessionId' # NoSession)
       => HasSession(sessions', currentSessionId')
    ]_vars

----------------------------------------------------------------------------
(* Properties of rename (SpecRename) *)

NameOf(ss, sid) == FindSession(ss, sid).project_name

\* C9 (as claimed): a rename is applied to the catalog only when no rename
\* issued earlier for the same session is still awaiting its acknowledgement.
C9_SameSessionCallsApplyInIssueOrder ==
  [][\A k \in CallIds :
       RenameOk(k) =>
         ~\E j \in 1..(k - 1) :
            calls[j].op = "rename" /\ calls[j].sid = calls[k].sid
    ]_vars

\* C10: the catalog takes the new name of a rename only when the backend
\* acknowledges it.  Issuing the rename leaves the catalog as it is; a step
\* that gives a session of the catalog another name X is the acknowledgement
\* of a rename of that session to X (or the arrival of the backend's session
\* list, which replaces the catalog); and after the acknowledgement of a
\* rename to X a session still in the catalog is named X.
C10_RenameShownOnlyOnAck ==
  [][/\ \A sid \in CatalogIds :
          (/\ HasSession(sessions', sid)
           /\ NameOf(sessions', sid) # NameOf(sessions, sid)) =>
            \/ \E k \in CallIds :
                 /\ RenameOk(k)
                 /\ calls[k].sid = sid
                 /\ calls[k].name = NameOf(sessions', sid)
            \/ \E k \in CallIds : calls[k].op = "list" /\ calls' = RemoveAt(calls, k)
     /\ \A k \in CallIds :
          (RenameOk(k) /\ HasSession(sessions, calls[k].sid)) =>
            NameOf(sessions', calls[k].sid) = calls[k].name
    ]_vars

\* C10: a rename to a name the session did not have was acknowledged, and
\* the catalog shows it
C10_Witness ==
  /\ lastSettled.op = "rename" /\ lastSettled.ok
  /\ lastSettled.name = "n2"
  /\ HasSession(sessions, lastSettled.sid)
  /\ NameOf(sessions, lastSettled.sid) = "n2"

----------------------------------------------------------------------------
(* Properties of rename and delete together (SpecCatalog) *)

\* C11: when the backend rejects a rename or a delete, that step leaves the
\* catalog and the current session as they are, the call is settled as
\* failed and no call is issued in its place; issuing the call had changed
\* neither the catalog nor the current session.
C11_RejectedCallChangesNothing ==
  [][/\ \A k \in CallIds :
          CallFail(k) =>
            /\ sessions' = sessions
            /\ currentSessionId' = currentSessionId
            /\ ~lastSettled'.ok
            /\ Len(calls') = Len(calls) - 1
            /\ issuedCalls' = issuedCalls
     /\ issuedCalls' # issuedCalls =>
          sessions' = sessions /\ currentSessionId' = currentSessionId
    ]_vars

\* C11: the delete of the current session was rejected: the session is still
\* in the catalog and still current
C11_Witness ==
  /\ lastSettled.op = "delete" /\ ~lastSettled.ok /\ lastSettled.wasCurrent
  /\ HasSession(sessions, lastSettled.sid)
  /\ currentSessionId = lastSettled.sid
  /\ Len(sessions) > 1

\* C19 (as claimed): the current session id is none, or the id of exactly one
\* session of the catalog.
C19_ActiveIsNoneOrInCatalog ==
  \/ currentSessionId = NoSession
  \/ Cardinality(SessionIndex(sessions, currentSessionId)) = 1

----------------------------------------------------------------------------
(* Properties of a stream beside rename and delete (SpecChat) *)

\* C23: an acknowledged delete leaves no session with the deleted id, and a
\* session id enters the catalog only as the id issued by the step that
\* creates it: no acknowledged or rejected call, no submission and no frame,
\* transport error or close of a stream puts a session back.
C23_DeletedSessionStaysDeleted ==
  [][/\ \A k \in CallIds :
         DeleteOk(k) => ~HasSession(sessions', calls[k].sid)
     /\ \A sid \in AllSessionIds :
         (HasSession(sessions', sid) /\ ~HasSession(sessions, sid)) =>
           /\ issued' = issued + 1
           /\ sid = issued'
    ]_vars

\* C23: a rename of a session was acknowledged after the session's delete
\* had succeeded, while the stream opened on that session is still open
C23_Witness ==
  /\ lastSettled.op = "rename" /\ lastSettled.ok
  /\ ~HasSession(sessions, lastSettled.sid)
  /\ \E i \in StreamIds :
       streams[i].sid = lastSettled.sid /\ streams[i].ws = "open"

====
